---- MODULE Spec2Model ----
(***************************************************************************)
(* Model of the spaced-repetition engine of muse-language                  *)
(* (src/app/services/learning/srs.py).                                     *)
(*                                                                         *)
(* Python floats are IEEE-754 binary64 values.  The engine truncates       *)
(* products of floats to integers (int(interval * ease)), so the rounding  *)
(* of every float operation decides integer results.  Floats are therefore *)
(* modelled bit-exactly: a float is a record [s, m, e] standing for        *)
(* (-1)^s * m * 2^e, where m is a natural number of exactly 53 bits        *)
(* (or zero, with e = 0) held as little-endian limbs of 14 bits, and every *)
(* operation rounds its exact result to nearest, ties to even.             *)
(***************************************************************************)
EXTENDS Integers, Sequences, FiniteSets, TLC

----------------------------------------------------------------------------
(* Natural numbers of arbitrary size: little-endian sequences of limbs     *)
(* below LimbBase, without high zero limbs (zero is the empty sequence).   *)

LimbBits == 14
LimbBase == 2^LimbBits
MantBits == 53

Limb(a, i) == IF i <= Len(a) THEN a[i] ELSE 0

RECURSIVE BNorm(_)
BNorm(a) ==
    IF a = <<>> THEN <<>>
    ELSE IF a[Len(a)] = 0 THEN BNorm(SubSeq(a, 1, Len(a) - 1))
    ELSE a

RECURSIVE BFromNat(_)
BFromNat(n) ==
    IF n = 0 THEN <<>> ELSE <<n % LimbBase>> \o BFromNat(n \div LimbBase)

RECURSIVE BToNat(_)
BToNat(a) ==
    IF a = <<>> THEN 0 ELSE a[1] + LimbBase * BToNat(Tail(a))

RECURSIVE BAddC(_, _, _, _)
BAddC(a, b, i, c) ==
    IF i > Len(a) /\ i > Len(b)
    THEN IF c = 0 THEN <<>> ELSE <<c>>
    ELSE LET x == Limb(a, i) + Limb(b, i) + c
         IN  <<x % LimbBase>> \o BAddC(a, b, i + 1, x \div LimbBase)

BAdd(a, b) == BAddC(a, b, 1, 0)

RECURSIVE BSubC(_, _, _, _)
BSubC(a, b, i, c) ==
    IF i > Len(a) THEN <<>>
    ELSE LET x == a[i] - Limb(b, i) - c
         IN  IF x < 0
             THEN <<x + LimbBase>> \o BSubC(a, b, i + 1, 1)
             ELSE <<x>> \o BSubC(a, b, i + 1, 0)

\* a - b for a >= b
BSub(a, b) == BNorm(BSubC(a, b, 1, 0))

RECURSIVE BCmpAt(_, _, _)
BCmpAt(a, b, i) ==
    IF i = 0 THEN 0
    ELSE IF a[i] < b[i] THEN -1
    ELSE IF a[i] > b[i] THEN 1
    ELSE BCmpAt(a, b, i - 1)

\* -1, 0 or 1 as a < b, a = b, a > b
BCmp(a, b) ==
    IF Len(a) < Len(b) THEN -1
    ELSE IF Len(a) > Len(b) THEN 1
    ELSE BCmpAt(a, b, Len(a))

RECURSIVE BMulSC(_, _, _, _)
BMulSC(a, k, i, c) ==
    IF i > Len(a)
    THEN IF c = 0 THEN <<>> ELSE <<c>>
    ELSE LET x == a[i] * k + c
         IN  <<x % LimbBase>> \o BMulSC(a, k, i + 1, x \div LimbBase)

\* a * k for 0 <= k < LimbBase
BMulS(a, k) == IF k = 0 THEN <<>> ELSE BMulSC(a, k, 1, 0)

RECURSIVE BMulR(_, _)
BMulR(a, b) ==
    IF b = <<>> THEN <<>>
    ELSE BAdd(BMulS(a, b[1]), <<0>> \o BMulR(a, Tail(b)))

BMul(a, b) == BNorm(BMulR(a, b))

RECURSIVE BDivSR(_, _)
BDivSR(a, d) ==
    IF a = <<>> THEN [q |-> <<>>, r |-> 0]
    ELSE LET hi == BDivSR(Tail(a), d)
             x  == hi.r * LimbBase + a[1]
         IN  [q |-> <<x \div d>> \o hi.q, r |-> x % d]

\* quotient and remainder of a by d, 0 < d <= LimbBase
BDivS(a, d) ==
    LET x == BDivSR(a, d) IN [q |-> BNorm(x.q), r |-> x.r]

SmallBitLen(x) == CHOOSE k \in 0..LimbBits : x < 2^k /\ (k = 0 \/ x >= 2^(k - 1))

BBitLen(a) ==
    IF a = <<>> THEN 0
    ELSE LimbBits * (Len(a) - 1) + SmallBitLen(a[Len(a)])

BOdd(a) == a # <<>> /\ a[1] % 2 = 1

BShl(a, n) ==
    IF a = <<>> THEN <<>>
    ELSE BMulS([i \in 1..(n \div LimbBits) |-> 0] \o a, 2^(n % LimbBits))

\* a shifted right by n bits, with st: some bit shifted out was set
BShr(a, n) ==
    LET k    == n \div LimbBits
        low  == SubSeq(a, 1, IF k < Len(a) THEN k ELSE Len(a))
        high == IF k < Len(a) THEN SubSeq(a, k + 1, Len(a)) ELSE <<>>
        d    == BDivS(high, 2^(n % LimbBits))
    IN  [q |-> d.q, st |-> d.r # 0 \/ \E i \in 1..Len(low) : low[i] # 0]

----------------------------------------------------------------------------
(* IEEE-754 binary64 arithmetic, round to nearest, ties to even.           *)

FZero == [s |-> 0, m |-> <<>>, e |-> 0]

FIsZero(x) == x.m = <<>>

\* The float nearest to (-1)^s * (n + f) * 2^e, where 0 <= f < 1 and f # 0
\* exactly when st; n has at least MantBits + 2 bits whenever st.
FRound(s, n, e, st) ==
    IF n = <<>> THEN [s |-> s, m |-> <<>>, e |-> 0]
    ELSE LET len == BBitLen(n)
         IN  IF len <= MantBits
             THEN [s |-> s, m |-> BShl(n, MantBits - len), e |-> e - (MantBits - len)]
             ELSE LET sh    == len - MantBits
                      r1    == BShr(n, sh - 1)
                      guard == BOdd(r1.q)
                      q     == BShr(r1.q, 1).q
                      up    == guard /\ (r1.st \/ st \/ BOdd(q))
                      q2    == IF up THEN BAdd(q, <<1>>) ELSE q
                  IN  IF BBitLen(q2) > MantBits
                      THEN [s |-> s, m |-> BShr(q2, 1).q, e |-> e + sh + 1]
                      ELSE [s |-> s, m |-> q2, e |-> e + sh]

\* float(n) for a Python int n
FInt(n) == IF n < 0 THEN FRound(1, BFromNat(-n), 0, FALSE)
           ELSE FRound(0, BFromNat(n), 0, FALSE)

\* n / d for Python ints n and d, 0 < d <= LimbBase (true division is
\* correctly rounded); also the value of a decimal literal n/d.
FIntDiv(n, d) ==
    LET a == BFromNat(IF n < 0 THEN -n ELSE n)
        x == BDivS(BShl(a, 5 * LimbBits), d)
    IN  FRound(IF n < 0 THEN 1 ELSE 0, x.q, -(5 * LimbBits), x.r # 0)

FNeg(x) == [s |-> 1 - x.s, m |-> x.m, e |-> x.e]

FMul(x, y) ==
    IF FIsZero(x) \/ FIsZero(y) THEN [s |-> (x.s + y.s) % 2, m |-> <<>>, e |-> 0]
    ELSE FRound((x.s + y.s) % 2, BMul(x.m, y.m), x.e + y.e, FALSE)

FAdd(x, y) ==
    IF FIsZero(x) THEN (IF FIsZero(y) /\ x.s # y.s THEN FZero ELSE y)
    ELSE IF FIsZero(y) THEN x
    ELSE LET e  == IF x.e < y.e THEN x.e ELSE y.e
             a  == BShl(x.m, x.e - e)
             b  == BShl(y.m, y.e - e)
             c  == BCmp(a, b)
         IN  IF x.s = y.s THEN FRound(x.s, BAdd(a, b), e, FALSE)
             ELSE IF c = 0 THEN FZero
             ELSE IF c > 0 THEN FRound(x.s, BSub(a, b), e, FALSE)
             ELSE FRound(y.s, BSub(b, a), e, FALSE)

FSub(x, y) == FAdd(x, FNeg(y))

\* x / d for a float x and a Python int d, 0 < d <= LimbBase
FDivS(x, d) ==
    IF FIsZero(x) THEN x
    ELSE LET q == BDivS(BShl(x.m, 2 * LimbBits), d)
         IN  FRound(x.s, q.q, x.e - 2 * LimbBits, q.r # 0)

\* The first n bits of r / b, for r < 2 * b, and what is left of r: the
\* long division, one quotient bit for each step
RECURSIVE BDivBits(_, _, _, _)
BDivBits(r, b, n, q) ==
    IF n = 0 THEN [q |-> q, r |-> r]
    ELSE IF BCmp(r, b) >= 0
         THEN BDivBits(BShl(BSub(r, b), 1), b, n - 1, BAdd(BShl(q, 1), <<1>>))
         ELSE BDivBits(BShl(r, 1), b, n - 1, BShl(q, 1))

\* n more bits of a division that stands at the quotient d.q and the rest d.r
BDivMore(d, b, n) == BDivBits(d.r, b, n, d.q)

\* The quotient bits are computed in three runs of RunBits bits: more than
\* MantBits + 2 are needed
RunBits == 19

FDivQ(s, d, e) == FRound(s, d.q, e, d.r # <<>>)

\* x / y for floats, y # 0
FDiv(x, y) ==
    IF FIsZero(x) THEN [s |-> (x.s + y.s) % 2, m |-> <<>>, e |-> 0]
    ELSE FDivQ((x.s + y.s) % 2,
               BDivMore(BDivMore(BDivBits(x.m, y.m, RunBits, <<>>), y.m, RunBits),
                        y.m, RunBits),
               x.e - y.e - (3 * RunBits - 1))

\* The bignum n rounded to the nearest integer after dropping sh >= 1 bits,
\* ties to the even one
BRoundH(r1, q) ==
    IF BOdd(r1.q) /\ (r1.st \/ BOdd(q)) THEN BAdd(q, <<1>>) ELSE q

BRoundShr(n, sh) == BRoundH(BShr(n, sh - 1), BShr(BShr(n, sh - 1).q, 1).q)

\* (-1)^s * n / 10 as a float, for a bignum n
FTenth(s, d) == FRound(s, d.q, -(5 * LimbBits), d.r # 0)

\* round(x, 1): the decimal of one digit nearest to the exact value of x,
\* ties to the even digit, then the float nearest to that decimal
FRound1(x) ==
    IF FIsZero(x) \/ x.e >= 0 THEN x
    ELSE FTenth(x.s, BDivS(BShl(BRoundShr(BMulS(x.m, 10), -x.e), 5 * LimbBits), 10))

\* -1, 0 or 1 as |x| < |y|, |x| = |y|, |x| > |y|
FCmpAbs(x, y) ==
    IF FIsZero(x) THEN (IF FIsZero(y) THEN 0 ELSE -1)
    ELSE IF FIsZero(y) THEN 1
    ELSE IF x.e < y.e THEN -1
    ELSE IF x.e > y.e THEN 1
    ELSE BCmp(x.m, y.m)

\* x < y
FLt(x, y) ==
    IF FIsZero(x) /\ FIsZero(y) THEN FALSE
    ELSE IF x.s # y.s THEN x.s = 1
    ELSE IF x.s = 0 THEN FCmpAbs(x, y) < 0
    ELSE FCmpAbs(x, y) > 0

FLe(x, y) == ~FLt(y, x)

\* Python's max(a, b) and min(a, b): the first argument unless the second
\* is strictly greater (smaller)
FMax(a, b) == IF FLt(a, b) THEN b ELSE a
FMin(a, b) == IF FLt(b, a) THEN b ELSE a

\* int(x): truncation towards zero
FTrunc(x) ==
    IF FIsZero(x) THEN 0
    ELSE LET n == BToNat(IF x.e >= 0 THEN BShl(x.m, x.e) ELSE BShr(x.m, -x.e).q)
         IN  IF x.s = 1 THEN -n ELSE n

----------------------------------------------------------------------------------------------------------------------------------------------
(* The engine: src/app/services/learning/srs.py                            *)

\* The float literals of the source
Lit0_02 == FIntDiv(2, 100)
Lit0_08 == FIntDiv(8, 100)
Lit0_1 == FIntDiv(1, 10)
Lit0_2 == FIntDiv(2, 10)
Lit1_0 == FInt(1)
Lit1_3 == FIntDiv(13, 10)

\* ReviewQuality
CORRECT_DIFFICULT == 3
CORRECT_PERFECT == 5

\* SpacedRepetitionEngine settings
MIN_EASE_FACTOR == FIntDiv(13, 10)
MAX_EASE_FACTOR == FIntDiv(5, 2)
INITIAL_EASE_FACTOR == FIntDiv(5, 2)
GRADUATING_INTERVAL == 1
MAX_INTERVAL == 365

\* A datetime field holding None
None == -1

\* Clock ticks in one day: datetimes are counted in ticks
TicksPerDay == 2

IMin(a, b) == IF b < a THEN b ELSE a
IMax(a, b) == IF b > a THEN b ELSE a

baseline == 3000

\* The time factor with the slow side not saturated
calculate_time_factor_unsaturated(response_time_ms) ==
    IF response_time_ms < baseline
    THEN FAdd(Lit1_0, FMul(FIntDiv(baseline - response_time_ms, baseline), Lit0_2))
    ELSE FSub(Lit1_0, FMul(FDivS(FInt(response_time_ms - baseline), baseline * 2), Lit0_2))

calculate_time_factor(response_time_ms) ==
    IF response_time_ms < baseline
    THEN FAdd(Lit1_0, FMul(FIntDiv(baseline - response_time_ms, baseline), Lit0_2))
    ELSE LET excess == IMin(response_time_ms - baseline, baseline * 2)
         IN  FSub(Lit1_0, FMul(FIntDiv(excess, baseline * 2), Lit0_2))

\* delta = 0.1 - (5 - q) * (0.08 + (5 - q) * 0.02)
EaseDelta(q) ==
    FSub(Lit0_1, FMul(FInt(5 - q), FAdd(Lit0_08, FMul(FInt(5 - q), Lit0_02))))

\* The ease factor without the range limit
calculate_ease_factor_unclamped(current_ease, quality, time_factor) ==
    FAdd(current_ease, FMul(EaseDelta(quality), time_factor))

\* The ease factor with the quality scale read upside down
calculate_ease_factor_inverted(current_ease, quality, time_factor) ==
    FMax(MIN_EASE_FACTOR,
         FMin(MAX_EASE_FACTOR,
              FAdd(current_ease, FMul(EaseDelta(8 - quality), time_factor))))

calculate_ease_factor(current_ease, quality, time_factor) ==
    LET delta    == FMul(EaseDelta(quality), time_factor)
        new_ease == FAdd(current_ease, delta)
    IN  FMax(MIN_EASE_FACTOR, FMin(MAX_EASE_FACTOR, new_ease))

\* The ease factor updated on the pass branch only
NewEase_pass_only(card, quality, time_factor) ==
    IF quality < CORRECT_DIFFICULT THEN card.ease_factor
    ELSE calculate_ease_factor(card.ease_factor, quality, time_factor)

\* new_ease: computed before the branch, stored after it
NewEase(card, quality, time_factor) ==
    calculate_ease_factor(card.ease_factor, quality, time_factor)

\* The pass branch multiplying by the ease factor the card had
PassInterval_old_ease(card, quality, new_ease) ==
    LET base == IF card.repetitions = 0 THEN GRADUATING_INTERVAL
                ELSE IF card.repetitions = 1 THEN 6
                ELSE FTrunc(FMul(FInt(card.interval), card.ease_factor))
    IN  IF quality = CORRECT_PERFECT
        THEN FTrunc(FMul(FInt(base), Lit1_3))
        ELSE base

\* The pass branch: card.interval before the limits are applied
PassInterval(card, quality, new_ease) ==
    LET base == IF card.repetitions = 0 THEN GRADUATING_INTERVAL
                ELSE IF card.repetitions = 1 THEN 6
                ELSE FTrunc(FMul(FInt(card.interval), new_ease))
    IN  IF quality = CORRECT_PERFECT
        THEN FTrunc(FMul(FInt(base), Lit1_3))
        ELSE base

\* The interval with the lower limit alone
LimitInterval_no_maximum(interval) == IMax(interval, 1)

LimitInterval(interval) == IMax(IMin(interval, MAX_INTERVAL), 1)

\* The fail branch leaving the interval as it was
NextInterval_fail_keeps(card, quality, new_ease) ==
    IF quality < CORRECT_DIFFICULT THEN LimitInterval(card.interval)
    ELSE LimitInterval(PassInterval(card, quality, new_ease))

NextInterval(card, quality, new_ease) ==
    IF quality < CORRECT_DIFFICULT THEN LimitInterval(1)
    ELSE LimitInterval(PassInterval(card, quality, new_ease))

\* The reset taken for every quality up to CORRECT_DIFFICULT
NextRepetitions_reset_on_3(card, quality) ==
    IF quality <= CORRECT_DIFFICULT THEN 0 ELSE card.repetitions + 1

NextRepetitions(card, quality) ==
    IF quality < CORRECT_DIFFICULT THEN 0 ELSE card.repetitions + 1

\* The fail branch counting nothing
NextIncorrectCount_uncounted(card, quality) == card.incorrect_count

NextIncorrectCount(card, quality) ==
    IF quality < CORRECT_DIFFICULT THEN card.incorrect_count + 1
    ELSE card.incorrect_count

NextCorrectCount(card, quality) ==
    IF quality < CORRECT_DIFFICULT THEN card.correct_count
    ELSE card.correct_count + 1

\* (avg * (n - 1) + response_time_ms) / n, n the incremented total_reviews
RunningMean(avg, n, response_time_ms) ==
    FDivS(FAdd(FMul(avg, FInt(n - 1)), FInt(response_time_ms)), n)

\* The card scheduled by the interval it had before the review
UpdatedCard_old_schedule(card, quality, response_time_ms, clock, new_ease, interval) ==
    [ease_factor     |-> new_ease,
     interval        |-> interval,
     repetitions     |-> NextRepetitions(card, quality),
     next_review     |-> clock + card.interval * TicksPerDay,
     last_reviewed   |-> clock,
     total_reviews   |-> card.total_reviews + 1,
     correct_count   |-> NextCorrectCount(card, quality),
     incorrect_count |-> NextIncorrectCount(card, quality),
     average_response_time |->
         RunningMean(card.average_response_time, card.total_reviews + 1,
                     response_time_ms)]

\* The card after the review: the branch's fields, the limits, the schedule
\* and the statistics
UpdatedCard(card, quality, response_time_ms, clock, new_ease, interval) ==
    [ease_factor     |-> new_ease,
     interval        |-> interval,
     repetitions     |-> NextRepetitions(card, quality),
     next_review     |-> clock + interval * TicksPerDay,
     last_reviewed   |-> clock,
     total_reviews   |-> card.total_reviews + 1,
     correct_count   |-> NextCorrectCount(card, quality),
     incorrect_count |-> NextIncorrectCount(card, quality),
     average_response_time |->
         RunningMean(card.average_response_time, card.total_reviews + 1,
                     response_time_ms)]

\* The decision log reporting the interval and ease factor passed in as new
Returned_stale(card, quality, time_factor, updated) ==
    [card    |-> updated,
     changes |-> [previous_interval |-> card.interval,
                  previous_ease     |-> card.ease_factor,
                  quality           |-> quality,
                  time_factor       |-> time_factor,
                  action            |-> IF quality < CORRECT_DIFFICULT
                                        THEN "reset" ELSE "advance",
                  new_interval      |-> card.interval,
                  new_ease          |-> card.ease_factor,
                  next_review       |-> updated.next_review]]

\* The pair returned: the card and the decision log (changes)
Returned(card, quality, time_factor, updated) ==
    [card    |-> updated,
     changes |-> [previous_interval |-> card.interval,
                  previous_ease     |-> card.ease_factor,
                  quality           |-> quality,
                  time_factor       |-> time_factor,
                  action            |-> IF quality < CORRECT_DIFFICULT
                                        THEN "reset" ELSE "advance",
                  new_interval      |-> updated.interval,
                  new_ease          |-> updated.ease_factor,
                  next_review       |-> updated.next_review]]

\* The call from the point where new_ease is known
ReviewWithEase(card, quality, response_time_ms, clock, time_factor, new_ease) ==
    Returned(card, quality, time_factor,
             UpdatedCard(card, quality, response_time_ms, clock, new_ease,
                         NextInterval(card, quality, new_ease)))

\* The call from the point where time_factor is known
ReviewWithFactor(card, quality, response_time_ms, clock, time_factor) ==
    ReviewWithEase(card, quality, response_time_ms, clock, time_factor,
                   NewEase(card, quality, time_factor))

\* The updated card and the decision log returned for a review at time clock
calculate_next_review(card, quality, response_time_ms, clock) ==
    ReviewWithFactor(card, quality, response_time_ms, clock,
                     calculate_time_factor(response_time_ms))

\* SRSCard(id, word, meaning): the dataclass defaults
NewCard ==
    [ease_factor     |-> INITIAL_EASE_FACTOR,
     interval        |-> 1,
     repetitions     |-> 0,
     next_review     |-> None,
     last_reviewed   |-> None,
     total_reviews   |-> 0,
     correct_count   |-> 0,
     incorrect_count |-> 0,
     average_response_time |-> FZero]

----------------------------------------------------------------------------
(* The state machine: one card, reviewed again and again.                  *)
(*   card  the SRSCard the caller holds                                    *)
(*   last  the last call of calculate_next_review: empty before the first  *)
(*         call, then one record of the card passed in (before), the       *)
(*         arguments, the exception raised ("none": the call returned)     *)
(*         and the decision log returned (changes)                         *)
(*   now   datetime.utcnow(), in ticks                                     *)
(*   deck  the list of SRSCards the caller passes to the queries           *)
(*   asked the last call of a query or of calculate_optimal_difficulty:    *)
(*         empty before the first, then one record of the operation, its   *)
(*         arguments and the value it returned                             *)
(*   learner  the AdaptiveLearning instance: its two histories             *)
(*   calls    the calls of calculate_optimal_difficulty made so far        *)

VARIABLES card, last, now, deck, asked, learner, calls

vars == <<card, last, now, deck, asked, learner, calls>>

\* AdaptiveLearning(): both histories empty
NewLearner == [difficulty_history |-> <<>>, accuracy_history |-> <<>>]

\* Reviews of one card in a run
MaxReviews == 3
\* Reviews of one card in a run that starts from an arbitrary card
MaxAnyReviews == 1

Qualities == 0..5
Times == {1000, 9000}

\* Cards of the valid range, as a caller may construct them
AnyEases == {FIntDiv(13, 10), FInt(2), FIntDiv(5, 2)}
AnyIntervals == {1, 10, 365}
AnyRepetitions == {0, 1, 3}
AnyTimes == {0, 1000, 3000, 5000, 9000, 1000000000}

\* Response times around the joints of the time factor (0, baseline,
\* baseline + 2 * baseline) and far beyond them
WideTimes == {0, 1, 1500, 2999, 3000, 3001, 6000, 8999, 9000, 9001, 1000000000}
WideQualities == {2, 5}

\* Arguments outside the contract: quality outside 0..5, negative time
LooseQualities == {-1, 2, 4, 7}
LooseTimes == {-1000, 3000}

\* The caller's card is the object the call mutates and returns
Called(before, quality, response_time_ms, r) ==
    /\ card' = r.card
    /\ last' = <<[before           |-> before,
                  quality          |-> quality,
                  response_time_ms |-> response_time_ms,
                  at               |-> now,
                  raised           |-> "none",
                  changes          |-> r.changes]>>
    /\ UNCHANGED <<now, deck, asked, learner, calls>>

Review(quality, response_time_ms) ==
    Called(card, quality, response_time_ms,
           calculate_next_review(card, quality, response_time_ms, now))

\* What the runs of one card leave as it is
Idle ==
    /\ deck = <<>>
    /\ asked = <<>>
    /\ learner = NewLearner
    /\ calls = 0

Init ==
    /\ card = NewCard
    /\ last = <<>>
    /\ now = 0
    /\ Idle

Next ==
    \E q \in Qualities, t \in Times :
        card.total_reviews < MaxReviews /\ Review(q, t)

Spec == Init /\ [][Next]_vars

InitAny ==
    /\ card \in {[NewCard EXCEPT !.ease_factor = e, !.interval = i, !.repetitions = r] :
                    e \in AnyEases, i \in AnyIntervals, r \in AnyRepetitions}
    /\ last = <<>>
    /\ now = 0
    /\ Idle

NextAny ==
    \E q \in Qualities, t \in AnyTimes :
        card.total_reviews < MaxAnyReviews /\ Review(q, t)

SpecAny == InitAny /\ [][NextAny]_vars

NextLoose ==
    \E q \in LooseQualities, t \in LooseTimes :
        card.total_reviews < MaxReviews /\ Review(q, t)

SpecLoose == Init /\ [][NextLoose]_vars

NextTimes ==
    \E q \in WideQualities, t \in WideTimes :
        card.total_reviews < MaxAnyReviews /\ Review(q, t)

SpecTimes == InitAny /\ [][NextTimes]_vars

----------------------------------------------------------------------------
(* Long runs of one card: the first review of a run passes or fails, the   *)
(* reviews after it only pass.  A run ends with the review of a card that  *)
(* has reached the largest interval.                                       *)

\* Passing reviews in a row
MaxPasses == 21

LongQualities == {0, 3, 5}
LongTimes == {3000}

\* A new card after seven reviews of quality 4 answered in 3000 ms
GrownCard ==
    [ease_factor     |-> INITIAL_EASE_FACTOR,
     interval        |-> MAX_INTERVAL,
     repetitions     |-> 7,
     next_review     |-> MAX_INTERVAL * TicksPerDay,
     last_reviewed   |-> 0,
     total_reviews   |-> 7,
     correct_count   |-> 7,
     incorrect_count |-> 0,
     average_response_time |-> FInt(3000)]

\* A new card after two reviews of quality 0 answered in 3000 ms
LapsedCard ==
    [ease_factor     |-> MIN_EASE_FACTOR,
     interval        |-> 1,
     repetitions     |-> 0,
     next_review     |-> TicksPerDay,
     last_reviewed   |-> 0,
     total_reviews   |-> 2,
     correct_count   |-> 0,
     incorrect_count |-> 2,
     average_response_time |-> FInt(3000)]

InitLong ==
    /\ card \in {NewCard, GrownCard, LapsedCard}
    /\ last = <<>>
    /\ now = 0
    /\ Idle

\* The review the run allows next: a failing one at the start, a passing one
\* until a card of the largest interval has passed once more
CanReview(quality) ==
    /\ quality < CORRECT_DIFFICULT => last = <<>>
    /\ quality >= CORRECT_DIFFICULT =>
           /\ card.repetitions < MaxPasses
           /\ last # <<>> => \/ last[1].quality < CORRECT_DIFFICULT
                             \/ last[1].before.interval < MAX_INTERVAL

NextLong ==
    \E quality \in LongQualities, response_time_ms \in LongTimes :
        CanReview(quality) /\ Review(quality, response_time_ms)

\* The learner keeps reviewing: weak fairness of NextLong, which is enabled
\* exactly when a review is allowed
KeepsReviewing ==
    \/ []<>(\A quality \in LongQualities : ~CanReview(quality))
    \/ []<><<NextLong>>_vars

SpecLong == InitLong /\ [][NextLong]_vars /\ KeepsReviewing

----------------------------------------------------------------------------
(* One card under a clock that moves between the reviews: each review      *)
(* reads datetime.utcnow() once, the ticks stand for the time that passes  *)
(* between two calls.                                                      *)

MaxNow == 4

ClockQualities == {1, 4, 5}

ClockTimes == {3000}

Tick ==
    /\ now < MaxNow
    /\ now' = now + 1
    /\ UNCHANGED <<card, last, deck, asked, learner, calls>>

NextClock ==
    \/ Tick
    \/ \E quality \in ClockQualities, response_time_ms \in ClockTimes :
           /\ card.total_reviews < MaxReviews
           /\ Review(quality, response_time_ms)

SpecClock == Init /\ [][NextClock]_vars

----------------------------------------------------------------------------
(* The queries over a list of cards.  A card of the list is an SRSCard     *)
(* with its id; the list is a sequence in the caller's order.              *)

\* The SRSCard c stored under the id
StoredCard(id, c) ==
    [id              |-> id,
     ease_factor     |-> c.ease_factor,
     interval        |-> c.interval,
     repetitions     |-> c.repetitions,
     next_review     |-> c.next_review,
     last_reviewed   |-> c.last_reviewed,
     total_reviews   |-> c.total_reviews,
     correct_count   |-> c.correct_count,
     incorrect_count |-> c.incorrect_count,
     average_response_time |-> c.average_response_time]

\* c.next_review and c.next_review <= now (a datetime is never falsy)
IsDue(c, clock) == c.next_review # None /\ c.next_review <= clock

\* A card is new whenever its repetitions are 0
IsNew_by_repetitions(c) == c.repetitions = 0

\* c.repetitions == 0 and c.next_review is None
IsNew(c) == c.repetitions = 0 /\ c.next_review = None

\* [c for c in cards if c.next_review and c.next_review <= now]
DuePool(cards, clock) ==
    LET Due(c) == IsDue(c, clock) IN SelectSeq(cards, Due)

\* [c for c in cards if c.repetitions == 0 and c.next_review is None]
NewPool(cards) == SelectSeq(cards, IsNew)

\* (now - c.next_review).days: the whole days of a timedelta, rounded down
DaysOverdue(c, clock) == (clock - c.next_review) \div TicksPerDay

\* The key with the ease factor as it is: ((now - c.next_review).days,
\* c.ease_factor)
SortKey_ease_not_negated(c, clock) ==
    [days |-> DaysOverdue(c, clock), neg_ease |-> c.ease_factor]

\* The sort key of a due card: ((now - c.next_review).days, -c.ease_factor)
SortKey(c, clock) ==
    [days |-> DaysOverdue(c, clock), neg_ease |-> FNeg(c.ease_factor)]

\* The order of the key tuples: the days first, then the negated ease factor
KeyLess(k1, k2) ==
    \/ k1.days < k2.days
    \/ k1.days = k2.days /\ FLt(k1.neg_ease, k2.neg_ease)

\* The place of c in a list sorted largest key first: behind every card whose
\* key is not smaller, so that cards of equal keys keep the order they came in
RECURSIVE Place(_, _, _, _)
Place(sorted, c, clock, i) ==
    IF i > Len(sorted) THEN i
    ELSE IF KeyLess(SortKey(sorted[i], clock), SortKey(c, clock)) THEN i
    ELSE Place(sorted, c, clock, i + 1)

InsertAt(s, i, c) == SubSeq(s, 1, i - 1) \o <<c>> \o SubSeq(s, i, Len(s))

\* The list ordered by the smaller ease factor alone, the days left out
RECURSIVE SortDue_ease_only(_, _, _)
SortDue_ease_only(due, clock, n) ==
    IF n = 0 THEN <<>>
    ELSE LET before == SortDue_ease_only(due, clock, n - 1)
             k      == CHOOSE i \in 1..(Len(before) + 1) :
                           /\ \A j \in 1..(i - 1) :
                                  ~FLt(due[n].ease_factor, before[j].ease_factor)
                           /\ i <= Len(before) =>
                                  FLt(due[n].ease_factor, before[i].ease_factor)
         IN  InsertAt(before, k, due[n])

\* due_cards.sort(key=..., reverse=True) on the first n cards: a stable sort
RECURSIVE SortDue(_, _, _)
SortDue(due, clock, n) ==
    IF n = 0 THEN <<>>
    ELSE LET before == SortDue(due, clock, n - 1)
         IN  InsertAt(before, Place(before, due[n], clock, 1), due[n])

\* s[:n], the slice: a negative n counts from the end
Slice(s, n) ==
    IF n >= 0 THEN SubSeq(s, 1, IMin(n, Len(s)))
    ELSE SubSeq(s, 1, IMax(Len(s) + n, 0))

\* The pools counted after the slices were taken
DueCards_sliced_totals(due, new, limit, include_new) ==
    [review    |-> Slice(due, limit),
     new       |-> Slice(new, include_new),
     total_due |-> Len(Slice(due, limit)),
     total_new |-> Len(Slice(new, include_new))]

\* The dict returned, from the sorted due pool and the new pool
DueCards(due, new, limit, include_new) ==
    [review    |-> Slice(due, limit),
     new       |-> Slice(new, include_new),
     total_due |-> Len(due),
     total_new |-> Len(new)]

SortedDuePool(due, clock) == SortDue(due, clock, Len(due))

\* The due cards moved out of the caller's list into due_cards
DueLists_due_removed(cards, clock) ==
    LET NotDue(c) == ~IsDue(c, clock)
    IN  [cards     |-> SelectSeq(cards, NotDue),
         due_cards |-> SortedDuePool(DuePool(cards, clock), clock)]

\* The two lists once due_cards.sort has run.  The comprehension builds
\* due_cards as a list of its own, so the sort reorders that list and the
\* caller's list keeps its cards and their order; the sort key reads
\* next_review and ease_factor and assigns no field
DueLists(cards, clock) ==
    [cards     |-> cards,
     due_cards |-> SortedDuePool(DuePool(cards, clock), clock)]

\* new_cards is built from the caller's list after the sort
get_due_cards(cards, limit, include_new, clock) ==
    LET lists == DueLists(cards, clock)
    IN  DueCards(lists.due_cards, NewPool(lists.cards), limit, include_new)

\* datetime.date(): the calendar day of a time
DateOf(t) == t \div TicksPerDay

\* now + timedelta(days=day)
DaysLater(clock, day) == clock + day * TicksPerDay

\* The cards due on the very day only
DueCount_that_day(cards, target_date) ==
    LET DueBy(c) == c.next_review # None
                    /\ DateOf(c.next_review) = DateOf(target_date)
    IN  Len(SelectSeq(cards, DueBy))

\* sum(1 for c in cards if c.next_review and c.next_review.date() <= target)
DueCount(cards, target_date) ==
    LET DueBy(c) == c.next_review # None
                    /\ DateOf(c.next_review) <= DateOf(target_date)
    IN  Len(SelectSeq(cards, DueBy))

\* The list left empty when there is no card to count
estimate_workload_no_cards(cards, days_ahead, clock) ==
    IF cards = <<>> THEN <<>>
    ELSE [d \in 1..days_ahead |->
             [date      |-> DateOf(DaysLater(clock, d - 1)),
              due_count |-> DueCount(cards, DaysLater(clock, d - 1))]]

\* The two lists once the loop has run: workload starts as a list of its
\* own and gets one entry for each day of range(days_ahead); the caller's
\* list is iterated by the sum and nothing is assigned to it or its cards
WorkloadLists(cards, days_ahead, clock) ==
    [cards    |-> cards,
     workload |-> [d \in 1..days_ahead |->
                      [date      |-> DateOf(DaysLater(clock, d - 1)),
                       due_count |-> DueCount(cards, DaysLater(clock, d - 1))]]]

estimate_workload(cards, days_ahead, clock) ==
    WorkloadLists(cards, days_ahead, clock).workload

----------------------------------------------------------------------------
(* The queries called on lists of up to MaxCards cards at different times. *)

MaxCards == 3

DeckEases == {FIntDiv(13, 10), FIntDiv(5, 2)}

DeckDues == {2, 3, 5}

DeckNows == {2, 4, 5}

Limits == {0, 1, 2, 20}

IncludeNews == {0, 5}

DaysAhead == {0, 3}

\* A card reviewed once the day before next_review, passed or failed
Scheduled(ease, next_review, repetitions) ==
    [NewCard EXCEPT !.ease_factor = ease,
                    !.repetitions = repetitions,
                    !.next_review = next_review,
                    !.last_reviewed = next_review - TicksPerDay,
                    !.total_reviews = 1,
                    !.correct_count = IF repetitions > 0 THEN 1 ELSE 0,
                    !.incorrect_count = IF repetitions > 0 THEN 0 ELSE 1,
                    !.average_response_time = FInt(baseline)]

\* The cards of the lists: never reviewed, constructed with repetitions and no
\* date, passed once, failed once
DeckChoices ==
    {NewCard, [NewCard EXCEPT !.repetitions = 2]}
    \cup {Scheduled(e, d, 1) : e \in DeckEases, d \in DeckDues}
    \cup {Scheduled(FIntDiv(13, 10), 3, 0)}

Decks ==
    UNION {{[i \in 1..n |-> StoredCard(i, f[i])] : f \in [1..n -> DeckChoices]} :
              n \in 0..MaxCards}

InitDeck ==
    /\ card = NewCard
    /\ last = <<>>
    /\ now \in DeckNows
    /\ deck \in Decks
    /\ asked = <<>>
    /\ learner = NewLearner
    /\ calls = 0

\* The caller's record of its calls: the call just made and, after it, the
\* call made before when that was the same query with the same arguments
Answered(call) ==
    IF asked # <<>> /\ [asked[1] EXCEPT !.result = 0] = [call EXCEPT !.result = 0]
    THEN <<call, asked[1]>>
    ELSE <<call>>

\* The caller holds deck before and after the call
GetDueCards(limit, include_new) ==
    /\ asked' = Answered([op          |-> "get_due_cards",
                          limit       |-> limit,
                          include_new |-> include_new,
                          result      |-> get_due_cards(deck, limit, include_new, now)])
    /\ deck' = DueLists(deck, now).cards
    /\ UNCHANGED <<card, last, now, learner, calls>>

EstimateWorkload(days_ahead) ==
    /\ asked' = Answered([op         |-> "estimate_workload",
                          days_ahead |-> days_ahead,
                          result     |-> estimate_workload(deck, days_ahead, now)])
    /\ deck' = WorkloadLists(deck, days_ahead, now).cards
    /\ UNCHANGED <<card, last, now, learner, calls>>

NextDeck ==
    \/ \E limit \in Limits, include_new \in IncludeNews :
           GetDueCards(limit, include_new)
    \/ \E days_ahead \in DaysAhead : EstimateWorkload(days_ahead)

SpecDeck == InitDeck /\ [][NextDeck]_vars

----------------------------------------------------------------------------
(* The queries on one card: predict_retention and get_mastery_level.       *)

\* (target_date - card.last_reviewed).days, target_date days_from_now ahead
ElapsedDays(c, days_from_now, clock) ==
    (DaysLater(clock, days_from_now) - c.last_reviewed) \div TicksPerDay

\* stability = card.interval * card.ease_factor
Stability(c) == FMul(FInt(c.interval), c.ease_factor)

\* The retention of a reviewed card.  math.exp is not computed: the record
\* [exp_of |-> x] stands for round(math.exp(x) * 100, 1), x the float
\* -elapsed_days / stability.
Retention(c, days_from_now, clock) ==
    [exp_of |-> FDiv(FInt(-ElapsedDays(c, days_from_now, clock)),
                     Stability(c))]

predict_retention(c, days_from_now, clock) ==
    IF c.last_reviewed = None THEN FZero
    ELSE Retention(c, days_from_now, clock)

Lit0_3 == FIntDiv(3, 10)
Lit0_5 == FIntDiv(1, 2)

\* accuracy = card.correct_count / total if total > 0 else 0
Accuracy(c) ==
    IF c.correct_count + c.incorrect_count > 0
    THEN FIntDiv(c.correct_count, c.correct_count + c.incorrect_count)
    ELSE FZero

\* interval_score = min(card.interval / 90, 1.0)
IntervalScore(c) == FMin(FIntDiv(c.interval, 90), Lit1_0)

\* ease_score = (ease_factor - MIN_EASE_FACTOR) / (MAX_EASE_FACTOR - MIN_EASE_FACTOR)
EaseScore(c) ==
    FDiv(FSub(c.ease_factor, MIN_EASE_FACTOR),
         FSub(MAX_EASE_FACTOR, MIN_EASE_FACTOR))

\* mastery = (accuracy * 0.3 + interval_score * 0.5 + ease_score * 0.2) * 100
Mastery(c) ==
    FMul(FAdd(FAdd(FMul(Accuracy(c), Lit0_3),
                   FMul(IntervalScore(c), Lit0_5)),
              FMul(EaseScore(c), Lit0_2)),
         FInt(100))

\* The level of the mastery, not rounded
LevelOf(mastery) ==
    IF FLe(FInt(90), mastery) THEN "Mastered"
    ELSE IF FLe(FInt(70), mastery) THEN "Familiar"
    ELSE IF FLe(FInt(40), mastery) THEN "Learning"
    ELSE "New"

ColorOf(level) ==
    CASE level = "Mastered" -> "gold"
      [] level = "Familiar" -> "green"
      [] level = "Learning" -> "blue"
      [] OTHER -> "gray"

\* The dict returned
MasteryLevel(c, accuracy, mastery) ==
    [mastery_percent |-> FRound1(mastery),
     level           |-> LevelOf(mastery),
     color           |-> ColorOf(LevelOf(mastery)),
     accuracy        |-> FRound1(FMul(accuracy, FInt(100))),
     interval_days   |-> c.interval,
     reviews_count   |-> c.total_reviews,
     is_mastered     |-> FLe(FInt(90), mastery)]

get_mastery_level(c) == MasteryLevel(c, Accuracy(c), Mastery(c))

\* The card after predict_retention or get_mastery_level.  Both read
\* last_reviewed, interval, ease_factor, correct_count and total_reviews,
\* assign local names only and call no method of the card
CardRead(c) == c

----------------------------------------------------------------------------
(* The four queries called by one caller, who holds a card and a list.     *)

\* The caller's card and the cards of its list: a new card and two scheduled
\* cards that get_due_cards puts in the order of their ease factors when
\* both are due
QueryChoices ==
    {NewCard, Scheduled(FIntDiv(13, 10), 3, 1), Scheduled(FIntDiv(5, 2), 2, 1)}

QueryDecks ==
    UNION {{[i \in 1..n |-> StoredCard(i, f[i])] : f \in [1..n -> QueryChoices]} :
              n \in 0..MaxCards}

QueryLimits == {1, 20}

DaysFromNow == {0, 7}

InitQueries ==
    /\ card \in QueryChoices
    /\ last = <<>>
    /\ now \in DeckNows
    /\ deck \in QueryDecks
    /\ asked = <<>>
    /\ learner = NewLearner
    /\ calls = 0

PredictRetention(days_from_now) ==
    /\ asked' = Answered([op            |-> "predict_retention",
                          days_from_now |-> days_from_now,
                          result        |-> predict_retention(card, days_from_now, now)])
    /\ card' = CardRead(card)
    /\ UNCHANGED <<last, now, deck, learner, calls>>

GetMasteryLevel ==
    /\ asked' = Answered([op     |-> "get_mastery_level",
                          result |-> get_mastery_level(card)])
    /\ card' = CardRead(card)
    /\ UNCHANGED <<last, now, deck, learner, calls>>

NextQueries ==
    \/ \E limit \in QueryLimits : GetDueCards(limit, 5)
    \/ EstimateWorkload(3)
    \/ \E days_from_now \in DaysFromNow : PredictRetention(days_from_now)
    \/ GetMasteryLevel

SpecQueries == InitQueries /\ [][NextQueries]_vars

----------------------------------------------------------------------------
(* get_mastery_level on valid cards of every level, and on cards whose     *)
(* mastery lies just under a level's threshold.                            *)

\* 3223 / 1500 is the ease factor of a new card after four reviews of the
\* qualities 3, 2, 5, 4 answered in 2000, 5000, 4000, 4000 ms; its interval
\* is then 6 and its counts are 3 and 1
MasteryEases ==
    {FIntDiv(13, 10), FIntDiv(1598, 1000), FInt(2), FIntDiv(3223, 1500),
     FIntDiv(5, 2)}

MasteryIntervals == {1, 6, 36, 90, 365}

MasteryCounts == {<<0, 0>>, <<1, 1>>, <<0, 2>>, <<3, 0>>, <<3, 1>>}

\* A card with the counts of its reviews, the last of them made at time 0
Reviewed(ease, interval, counts) ==
    [NewCard EXCEPT !.ease_factor = ease,
                    !.interval = interval,
                    !.repetitions = counts[1],
                    !.next_review = IF counts[1] + counts[2] > 0
                                    THEN interval * TicksPerDay ELSE None,
                    !.last_reviewed = IF counts[1] + counts[2] > 0 THEN 0 ELSE None,
                    !.total_reviews = counts[1] + counts[2],
                    !.correct_count = counts[1],
                    !.incorrect_count = counts[2]]

InitMastery ==
    /\ card \in {Reviewed(e, i, n) :
                    e \in MasteryEases, i \in MasteryIntervals, n \in MasteryCounts}
    /\ last = <<>>
    /\ now = 0
    /\ Idle

SpecMastery == InitMastery /\ [][GetMasteryLevel]_vars

----------------------------------------------------------------------------
(* AdaptiveLearning: the difficulty controller.                            *)

Lit0_9 == FIntDiv(9, 10)

\* current_difficulty = self.difficulty_history[-1] if ... else 0.5
CurrentDifficulty(self) ==
    IF self.difficulty_history # <<>>
    THEN self.difficulty_history[Len(self.difficulty_history)]
    ELSE Lit0_5

\* error = target_accuracy - recent_accuracy; adjustment = error * 0.5
Adjustment(recent_accuracy, target_accuracy) ==
    FMul(FSub(target_accuracy, recent_accuracy), Lit0_5)

\* new_difficulty = current_difficulty + adjustment
Adjusted(self, recent_accuracy, target_accuracy) ==
    FAdd(CurrentDifficulty(self), Adjustment(recent_accuracy, target_accuracy))

\* The difficulty moved with no limits
NewDifficulty_unclamped(self, recent_accuracy, target_accuracy) ==
    Adjusted(self, recent_accuracy, target_accuracy)

\* new_difficulty = max(0.1, min(0.9, new_difficulty))
NewDifficulty(self, recent_accuracy, target_accuracy) ==
    FMax(Lit0_1, FMin(Lit0_9, Adjusted(self, recent_accuracy, target_accuracy)))

\* The instance after the call: one entry appended to each history
Recorded(self, recent_accuracy, new_difficulty) ==
    [difficulty_history |-> Append(self.difficulty_history, new_difficulty),
     accuracy_history   |-> Append(self.accuracy_history, recent_accuracy)]

MaxCalls == 3

Accuracies == {FZero, FIntDiv(1, 2), FIntDiv(8, 10), FInt(1)}

Targets == {FIntDiv(8, 10), FIntDiv(6, 10)}

OptimalDifficulty(recent_accuracy, target_accuracy, new_difficulty) ==
    /\ learner' = Recorded(learner, recent_accuracy, new_difficulty)
    /\ asked' = <<[op              |-> "calculate_optimal_difficulty",
                   self            |-> learner,
                   recent_accuracy |-> recent_accuracy,
                   target_accuracy |-> target_accuracy,
                   result          |-> new_difficulty]>>
    /\ calls' = calls + 1
    /\ UNCHANGED <<card, last, now, deck>>

CalculateOptimalDifficulty(recent_accuracy, target_accuracy) ==
    OptimalDifficulty(recent_accuracy, target_accuracy,
                      NewDifficulty(learner, recent_accuracy, target_accuracy))

NextAdaptive ==
    \E recent_accuracy \in Accuracies, target_accuracy \in Targets :
        /\ calls < MaxCalls
        /\ CalculateOptimalDifficulty(recent_accuracy, target_accuracy)

SpecAdaptive == Init /\ [][NextAdaptive]_vars

----------------------------------------------------------------------------
(* AdaptiveLearning.select_content: the candidates ordered by their score. *)
(* A content is a dict: a function of the keys it has.                     *)

\* content.get(key, default)
Get(content, key, default) ==
    IF key \in DOMAIN content THEN content[key] ELSE default

FAbs(x) == [s |-> 0, m |-> x.m, e |-> x.e]

\* len(set(content_tags) & set(user_weaknesses))
WeaknessMatch(content_tags, user_weaknesses) ==
    Cardinality({content_tags[i] : i \in DOMAIN content_tags}
                    \cap {user_weaknesses[i] : i \in DOMAIN user_weaknesses})

\* difficulty_match = 1 - abs(content.get("difficulty", 0.5) - user_difficulty)
DifficultyMatch(content, user_difficulty) ==
    FSub(FInt(1), FAbs(FSub(Get(content, "difficulty", Lit0_5), user_difficulty)))

\* score = 0; score += difficulty_match * 50; score += weakness_match * 30
WeightedScore(content, user_difficulty, user_weaknesses) ==
    FAdd(FAdd(FZero, FMul(DifficultyMatch(content, user_difficulty), FInt(50))),
         FInt(WeaknessMatch(Get(content, "tags", <<>>), user_weaknesses) * 30))

\* if not content.get("completed", False): score += 20
Score(content, user_difficulty, user_weaknesses) ==
    IF ~Get(content, "completed", FALSE)
    THEN FAdd(WeightedScore(content, user_difficulty, user_weaknesses), FInt(20))
    ELSE WeightedScore(content, user_difficulty, user_weaknesses)

\* The place of the pair x in a list sorted largest score first: behind every
\* pair whose score is not smaller
RECURSIVE ScorePlace(_, _, _)
ScorePlace(sorted, x, i) ==
    IF i > Len(sorted) THEN i
    ELSE IF FLt(sorted[i].score, x.score) THEN i
    ELSE ScorePlace(sorted, x, i + 1)

\* The pairs ordered smallest score first
RECURSIVE SortScored_ascending(_, _)
SortScored_ascending(scored_content, n) ==
    IF n = 0 THEN <<>>
    ELSE LET before == SortScored_ascending(scored_content, n - 1)
             k      == CHOOSE i \in 1..(Len(before) + 1) :
                           /\ \A j \in 1..(i - 1) :
                                  ~FLt(scored_content[n].score, before[j].score)
                           /\ i <= Len(before) =>
                                  FLt(scored_content[n].score, before[i].score)
         IN  InsertAt(before, k, scored_content[n])

\* scored_content.sort(key=lambda x: x[1], reverse=True) on the first n pairs
RECURSIVE SortScored(_, _)
SortScored(scored_content, n) ==
    IF n = 0 THEN <<>>
    ELSE LET before == SortScored(scored_content, n - 1)
         IN  InsertAt(before, ScorePlace(before, scored_content[n], 1),
                      scored_content[n])

\* The (content, score) pairs in the order of the pool
ScoredContent(available_content, user_difficulty, user_weaknesses) ==
    [i \in DOMAIN available_content |->
        [content |-> available_content[i],
         score   |-> Score(available_content[i], user_difficulty, user_weaknesses)]]

\* [c[0] for c in scored_content]
Contents(scored_content) ==
    [i \in DOMAIN scored_content |-> scored_content[i].content]

select_content(available_content, user_difficulty, user_weaknesses) ==
    Contents(SortScored(ScoredContent(available_content, user_difficulty,
                                      user_weaknesses),
                        Len(available_content)))

\* Candidates of one pool
MaxPool == 3

\* The dicts a pool is made of: all keys, some keys, none
ContentChoices ==
    {[difficulty |-> FIntDiv(3, 10), tags |-> <<"grammar">>, completed |-> FALSE],
     [difficulty |-> FIntDiv(7, 10), tags |-> <<"grammar", "vocab", "grammar">>,
      completed |-> TRUE],
     [difficulty |-> FIntDiv(1, 2), tags |-> <<>>, completed |-> FALSE],
     [title |-> "untagged"],
     [difficulty |-> FIntDiv(9, 10), tags |-> <<"vocab">>]}

\* Every list of up to MaxPool dicts, each with the place it has in the pool
Pools ==
    UNION {{[i \in 1..n |-> [id |-> i] @@ f[i]] : f \in [1..n -> ContentChoices]} :
              n \in 0..MaxPool}

UserDifficulties == {FIntDiv(1, 2), FIntDiv(3, 10)}

UserWeaknesses == {<<>>, <<"grammar">>, <<"vocab", "grammar">>}

\* The pool is the caller's list: the call reads it and builds a new list
SelectContent(available_content, user_difficulty, user_weaknesses) ==
    /\ asked' = <<[op                |-> "select_content",
                   pool              |-> available_content,
                   available_content |-> available_content,
                   user_difficulty   |-> user_difficulty,
                   user_weaknesses   |-> user_weaknesses,
                   result            |-> select_content(available_content,
                                                        user_difficulty,
                                                        user_weaknesses)]>>
    /\ UNCHANGED <<card, last, now, deck, learner, calls>>

\* One call in a run: the call keeps nothing for the next one
NextContent ==
    \E available_content \in Pools, user_difficulty \in UserDifficulties,
       user_weaknesses \in UserWeaknesses :
        /\ asked = <<>>
        /\ SelectContent(available_content, user_difficulty, user_weaknesses)

SpecContent == Init /\ [][NextContent]_vars

\* The three functions of a list, called on the lists of at most one entry:
\* the empty card list and the empty pool among them
InitCollections ==
    /\ card = NewCard
    /\ last = <<>>
    /\ now \in DeckNows
    /\ deck \in {cards \in Decks : Len(cards) <= 1}
    /\ asked = <<>>
    /\ learner = NewLearner
    /\ calls = 0

NextCollections ==
    \/ NextDeck
    \/ \E available_content \in {pool \in Pools : Len(pool) <= 1},
          user_difficulty \in UserDifficulties, user_weaknesses \in UserWeaknesses :
           SelectContent(available_content, user_difficulty, user_weaknesses)

SpecCollections == InitCollections /\ [][NextCollections]_vars

----------------------------------------------------------------------------
(* Two reviews of one card in both orders.  The deck holds two copies of   *)
(* the card: deck[1] is reviewed with the first outcome and then with the  *)
(* second, deck[2] with the second and then with the first.                *)

OrderQualities == {0, 3, 5}
OrderTimes == {1000, 3000}

\* The two outcomes (quality, response_time_ms) and the two copies
TwoOutcomes(q1, t1, q2, t2) ==
    /\ asked = <<>>
    /\ asked' = <<[op |-> "both_orders", first |-> <<q1, t1>>, second |-> <<q2, t2>>]>>
    /\ deck' = <<StoredCard(1, card), StoredCard(2, card)>>
    /\ UNCHANGED <<card, last, now, learner, calls>>

\* The outcome the copy k receives next
NextOutcome(k) ==
    IF (k = 1) = (deck[k].total_reviews = card.total_reviews)
    THEN asked[1].first ELSE asked[1].second

\* calculate_next_review on the copy k
ReviewCopy(k) ==
    /\ asked # <<>> /\ asked[1].op = "both_orders"
    /\ deck[k].total_reviews < card.total_reviews + 2
    /\ deck' = [deck EXCEPT ![k] =
                    StoredCard(k, calculate_next_review(deck[k], NextOutcome(k)[1],
                                                        NextOutcome(k)[2], now).card)]
    /\ UNCHANGED <<card, last, now, asked, learner, calls>>

NextOrders ==
    \/ \E q1, q2 \in OrderQualities, t1, t2 \in OrderTimes : TwoOutcomes(q1, t1, q2, t2)
    \/ \E k \in 1..2 : ReviewCopy(k)

SpecOrders == InitAny /\ [][NextOrders]_vars

----------------------------------------------------------------------------
(* The review handler of the vocabulary API: POST /review/submit.          *)

Lit0_7 == FIntDiv(7, 10)

\* The entry of results appended for one answer
ReviewResult(answer) ==
    [word_id           |-> answer.word_id,
     quality           |-> answer.quality,
     is_correct        |-> answer.quality >= 3,
     new_interval_days |-> IF answer.quality >= 3 THEN 3 ELSE 1,
     new_ease_factor   |-> FIntDiv(5, 2),
     xp_earned         |-> IF answer.quality >= 3 THEN 3 ELSE 1]

\* sum(r["xp_earned"] for r in results) over the first n entries
RECURSIVE TotalXp(_, _)
TotalXp(results, n) ==
    IF n = 0 THEN 0 ELSE TotalXp(results, n - 1) + results[n].xp_earned

\* sum(1 for r in results if r["is_correct"])
CorrectCount(results) ==
    Cardinality({i \in DOMAIN results : results[i].is_correct})

\* The dict returned.  The encouragement divides by len(answers) with no
\* guard: the division by zero is raised in its place
ReviewSummary(answers, results) ==
    IF Len(answers) = 0
    THEN [raised |-> "ZeroDivisionError", result |-> None]
    ELSE [raised |-> "none",
          result |->
              [reviewed_count |-> Len(answers),
               correct_count  |-> CorrectCount(results),
               accuracy       |-> IF answers # <<>>
                                  THEN FIntDiv(CorrectCount(results), Len(answers))
                                  ELSE FZero,
               xp_earned      |-> TotalXp(results, Len(results)),
               results        |-> results,
               remaining_due  |-> 10,
               encouragement  |->
                   IF FLt(Lit0_7, FIntDiv(CorrectCount(results), Len(answers)))
                   THEN "Great review session!" ELSE "Keep practicing!"]]

submit_review(answers) ==
    ReviewSummary(answers, [i \in DOMAIN answers |-> ReviewResult(answers[i])])

\* Answers of one request
MaxAnswers == 3

\* Every list of up to MaxAnswers answers
AnswerLists ==
    UNION {{[i \in 1..n |-> [word_id |-> i, quality |-> q[i], response_time_ms |-> 3000]] :
               q \in [1..n -> Qualities]} : n \in 0..MaxAnswers}

SubmitReview(answers) ==
    /\ asked' = <<[op      |-> "submit_review",
                   answers |-> answers,
                   raised  |-> submit_review(answers).raised,
                   result  |-> submit_review(answers).result]>>
    /\ UNCHANGED <<card, last, now, deck, learner, calls>>

\* One request in a run: the handler keeps nothing for the next one
NextSubmit ==
    \E answers \in AnswerLists : asked = <<>> /\ SubmitReview(answers)

SpecSubmit == Init /\ [][NextSubmit]_vars

----------------------------------------------------------------------------
(* The claims.  Call is the last call; it is read only where HasCall.      *)

HasCall == last # <<>>
Call == last[1]

\* x * 2^53 for a float x >= 2^-53, a natural number
Scaled53(x) == BShl(x.m, x.e + MantBits)

BAbsDiff(a, b) == IF BCmp(a, b) >= 0 THEN BSub(a, b) ELSE BSub(b, a)

\* |x - num / den| <= ulps * 2^-53, in exact arithmetic
Near(x, num, den, ulps) ==
    BCmp(BAbsDiff(BMul(Scaled53(x), BFromNat(den)), BShl(BFromNat(num), MantBits)),
         BFromNat(ulps * den)) <= 0

\* floor(i * x) for the exact value of a float x > 0 and 0 < i < LimbBase
ExactFloorMul(i, x) == BToNat(BShr(BMulS(x.m, i), -x.e).q)

\* C1: every card has 1.3 <= ease_factor <= 2.5 and 1 <= interval <= 365,
\* before and after every review of quality 0..5 and response time >= 0,
\* starting from any card in that range.
C1_RangesKept ==
    /\ FLe(FIntDiv(13, 10), card.ease_factor)
    /\ FLe(card.ease_factor, FIntDiv(5, 2))
    /\ 1 <= card.interval
    /\ card.interval <= 365

\* C1 witness: a perfect, instant review of a card at the top of both ranges
\* was limited: the ease factor stays 2.5 and the interval stays 365.
C1_WitnessBothLimited ==
    /\ HasCall
    /\ Call.quality = 5
    /\ Call.response_time_ms = 0
    /\ Call.before.repetitions = 3
    /\ Call.before.interval = 365
    /\ Call.before.ease_factor = FIntDiv(5, 2)
    /\ card.interval = 365
    /\ card.ease_factor = FIntDiv(5, 2)

\* C2: a review of quality < 3 leaves repetitions = 0 and interval = 1,
\* whatever the card was.
C2_FailResets ==
    HasCall /\ Call.quality < 3 => card.repetitions = 0 /\ card.interval = 1

\* C2 witness: a card with repetitions 3 and interval 365 was failed.
C2_WitnessLongCardFailed ==
    /\ HasCall
    /\ Call.quality < 3
    /\ Call.before.repetitions = 3
    /\ Call.before.interval = 365
    /\ card.repetitions = 0
    /\ card.interval = 1

\* C3: a call with quality outside 0..5 or a negative response time is
\* rejected with an invalid-input error and leaves the card as it was.
C3_InvalidInputRejected ==
    HasCall /\ (Call.quality \notin 0..5 \/ Call.response_time_ms < 0)
        => Call.raised = "invalid-input" /\ card = Call.before

\* C4: from a new card on, total_reviews = correct_count + incorrect_count,
\* and each review adds 1 to total_reviews and 1 to exactly one of
\* correct_count (quality >= 3) and incorrect_count (quality < 3).
C4_CountersAddUp ==
    /\ card.total_reviews = card.correct_count + card.incorrect_count
    /\ HasCall =>
         /\ card.total_reviews = Call.before.total_reviews + 1
         /\ Call.quality >= 3 =>
              /\ card.correct_count = Call.before.correct_count + 1
              /\ card.incorrect_count = Call.before.incorrect_count
         /\ Call.quality < 3 =>
              /\ card.incorrect_count = Call.before.incorrect_count + 1
              /\ card.correct_count = Call.before.correct_count

\* C4 witness: three reviews, two passed and one failed, the last one failed.
C4_WitnessMixedReviews ==
    /\ HasCall
    /\ Call.quality < 3
    /\ card.total_reviews = 3
    /\ card.correct_count = 2
    /\ card.incorrect_count = 1

\* C5: after a review repetitions is 0 exactly when its quality was < 3, and
\* a review of quality >= 3 adds exactly 1 to repetitions.
C5_RepetitionsStep ==
    HasCall =>
        /\ card.repetitions = 0 <=> Call.quality < 3
        /\ Call.quality >= 3 => card.repetitions = Call.before.repetitions + 1

\* C5 witness: a third pass in a row, of the lowest passing quality.
C5_WitnessThirdPass ==
    /\ HasCall
    /\ Call.quality = 3
    /\ Call.before.repetitions = 2
    /\ card.repetitions = 3

\* C6: after a review of quality >= 3 the interval is clamp(b, 1, 365), b
\* being floor(base * 1.3) for quality 5 and base otherwise, and base 1 for
\* prior repetitions 0, 6 for prior repetitions 1 and otherwise the float
\* product prior interval * new ease factor truncated, which is the floor of
\* the exact product or, when the product rounds up to an integer, one more;
\* a first pass of a new card gives interval 1 and repetitions 1, and a
\* second pass of quality 5 gives interval 7 and repetitions 2.
C6_Product == FTrunc(FMul(FInt(Call.before.interval), card.ease_factor))

C6_Base == IF Call.before.repetitions = 0 THEN 1
           ELSE IF Call.before.repetitions = 1 THEN 6
           ELSE C6_Product

C6_Bonus == IF Call.quality = 5 THEN (C6_Base * 13) \div 10 ELSE C6_Base

C6_PassInterval ==
    HasCall /\ Call.quality >= 3 =>
        /\ card.interval = IMax(1, IMin(365, C6_Bonus))
        /\ C6_Product - ExactFloorMul(Call.before.interval, card.ease_factor)
               \in {0, 1}
        /\ Call.before = NewCard => card.interval = 1 /\ card.repetitions = 1
        /\ Call.before.repetitions = 1 /\ Call.quality = 5 =>
               card.interval = 7 /\ card.repetitions = 2

\* C6 witness: a perfect review on the multiplicative branch, below the
\* limit: prior interval 10, prior repetitions 3, new ease factor 2.12,
\* interval floor(floor(10 * 2.12) * 1.3) = 27.
C6_WitnessMultiplied ==
    /\ HasCall
    /\ Call.quality = 5
    /\ Call.before.repetitions = 3
    /\ Call.before.interval = 10
    /\ Call.before.ease_factor = FInt(2)
    /\ card.interval = 27

\* The SM-2 delta of quality q in hundredths, and the time factor of
\* response time t in 30000ths, as the rational numbers they stand for
ExactDelta(q) == 10 - (5 - q) * (8 + (5 - q) * 2)
ExactFactor(t) == IF t < 3000 THEN 30000 + 2 * (3000 - t)
                  ELSE 30000 - IMin(t - 3000, 6000)

\* 3000000 * 2^53 * clamp(x + ExactDelta(q) / 100 * ExactFactor(t) / 30000,
\* 13/10, 5/2) for the exact value of a float x >= 1.3
ExactEase(x, q, t) ==
    LET old   == BMul(Scaled53(x), BFromNat(3000000))
        d     == ExactDelta(q) * ExactFactor(t)
        step  == BShl(BFromNat(IF d < 0 THEN -d ELSE d), MantBits)
        sum   == IF d < 0 THEN BSub(old, step) ELSE BAdd(old, step)
        lo    == BShl(BFromNat(3900000), MantBits)
        hi    == BShl(BFromNat(7500000), MantBits)
    IN  IF BCmp(sum, lo) < 0 THEN lo ELSE IF BCmp(sum, hi) > 0 THEN hi ELSE sum

\* C7: after every review, passed or failed, the ease factor is
\* clamp(old + (0.1 - (5-q)*(0.08 + (5-q)*0.02)) * tf, 1.3, 2.5) for the time
\* factor tf of the decision log: the very float the formula gives, which is
\* within 2^-50 of the formula's value in exact arithmetic.
C7_EaseFormula ==
    HasCall =>
        /\ card.ease_factor =
             FMax(FIntDiv(13, 10),
                  FMin(FIntDiv(5, 2),
                       FAdd(Call.before.ease_factor,
                            FMul(FSub(FIntDiv(1, 10),
                                      FMul(FInt(5 - Call.quality),
                                           FAdd(FIntDiv(8, 100),
                                                FMul(FInt(5 - Call.quality),
                                                     FIntDiv(2, 100))))),
                                 Call.changes.time_factor))))
        /\ BCmp(BAbsDiff(BMul(Scaled53(card.ease_factor), BFromNat(3000000)),
                         ExactEase(Call.before.ease_factor, Call.quality,
                                   Call.response_time_ms)),
                BFromNat(8 * 3000000)) <= 0

\* C7 witness: a failed review lowered the ease factor from 2.0, short of the
\* lower limit: quality 1 after 5000 ms gives 2.0 - 0.54 * 14/15 = 1.496.
C7_WitnessFailLowersEase ==
    /\ HasCall
    /\ Call.quality = 1
    /\ Call.response_time_ms = 5000
    /\ Call.before.ease_factor = FInt(2)
    /\ Near(card.ease_factor, 1496, 1000, 8)

\* C8: the time factor of every response time t >= 0 lies in [0.8, 1.2], is
\* not above the time factor of any shorter response time, is 1.2 at 0 ms,
\* 1.0 at 3000 ms and 0.8 from 9000 ms on, and in between is the linear
\* interpolation (18000 - t) / 15000 below 3000 ms and (33000 - t) / 30000
\* from there to 9000 ms, to within 2^-52.
C8_TimeFactorShape ==
    HasCall =>
        /\ FLe(FIntDiv(8, 10), Call.changes.time_factor)
        /\ FLe(Call.changes.time_factor, FIntDiv(12, 10))
        /\ \A t2 \in WideTimes :
               t2 > Call.response_time_ms =>
                   FLe(calculate_time_factor(t2), Call.changes.time_factor)
        /\ Call.response_time_ms = 0 => Call.changes.time_factor = FIntDiv(12, 10)
        /\ Call.response_time_ms = 3000 => Call.changes.time_factor = FInt(1)
        /\ Call.response_time_ms >= 9000 => Call.changes.time_factor = FIntDiv(8, 10)
        /\ Call.response_time_ms < 3000 =>
               Near(Call.changes.time_factor, 18000 - Call.response_time_ms, 15000, 2)
        /\ Call.response_time_ms >= 3000 /\ Call.response_time_ms <= 9000 =>
               Near(Call.changes.time_factor, 33000 - Call.response_time_ms, 30000, 2)

\* C8 witness: a response time on the slope between the baseline and the
\* saturation point: 6000 ms has the time factor 0.9.
C8_WitnessOnTheSlope ==
    /\ HasCall
    /\ Call.response_time_ms = 6000
    /\ Call.changes.time_factor = FIntDiv(9, 10)

\* C9: had a passed review (quality q1 >= 3) been given a higher quality q2
\* with the same card and response time, the ease factor would not be lower.
C9_QualityMonotone ==
    HasCall /\ Call.quality >= 3 =>
        \A q2 \in Qualities :
            q2 > Call.quality =>
                FLe(card.ease_factor,
                    calculate_ease_factor(Call.before.ease_factor, q2,
                                          Call.changes.time_factor))

\* C9 witness: a review of quality 3 left the ease factor strictly below
\* what quality 5 would have given.
C9_WitnessStrictlyLower ==
    /\ HasCall
    /\ Call.quality = 3
    /\ FLt(card.ease_factor,
           calculate_ease_factor(Call.before.ease_factor, 5,
                                 Call.changes.time_factor))

\* C10: had a review (any quality 0..5) taken a longer response time t2 with
\* the same card and quality, the ease factor would not be higher: the
\* faster response never ends with the lower ease factor.
C10_FasterNeverLower ==
    HasCall =>
        \A t2 \in AnyTimes :
            t2 > Call.response_time_ms =>
                FLe(calculate_ease_factor(Call.before.ease_factor, Call.quality,
                                          calculate_time_factor(t2)),
                    card.ease_factor)

\* C11: a review of quality < 3 never raises the ease factor, lowers it
\* strictly whenever it was above 1.3, adds exactly 1 to incorrect_count and
\* leaves correct_count as it was.
C11_FailLowersEase ==
    HasCall /\ Call.quality < 3 =>
        /\ FLe(card.ease_factor, Call.before.ease_factor)
        /\ FLt(FIntDiv(13, 10), Call.before.ease_factor) =>
               FLt(card.ease_factor, Call.before.ease_factor)
        /\ card.incorrect_count = Call.before.incorrect_count + 1
        /\ card.correct_count = Call.before.correct_count

\* C11 witness: scenario C's kind of card, ease factor 2.0 and repetitions
\* 3, failed with quality 1: the ease factor went down, short of 1.3.
C11_WitnessEaseDecreased ==
    /\ HasCall
    /\ Call.quality = 1
    /\ Call.before.repetitions = 3
    /\ Call.before.interval = 10
    /\ Call.before.ease_factor = FInt(2)
    /\ FLt(card.ease_factor, FInt(2))
    /\ FLt(FIntDiv(13, 10), card.ease_factor)
    /\ card.incorrect_count = 1
    /\ card.repetitions = 0
    /\ card.interval = 1

\* C12: the decision log reports the interval and ease factor the card had
\* before the call as previous_interval and previous_ease, the action
\* "reset" exactly for quality < 3 and "advance" exactly for quality >= 3,
\* the time factor of the response time, from which the new ease factor was
\* computed, and the updated card's interval, ease factor and next_review.
C12_DecisionLog ==
    HasCall =>
        /\ Call.changes.previous_interval = Call.before.interval
        /\ Call.changes.previous_ease = Call.before.ease_factor
        /\ Call.changes.action = "reset" <=> Call.quality < 3
        /\ Call.changes.action = "advance" <=> Call.quality >= 3
        /\ Call.changes.time_factor = calculate_time_factor(Call.response_time_ms)
        /\ card.ease_factor =
               calculate_ease_factor(Call.before.ease_factor, Call.quality,
                                     Call.changes.time_factor)
        /\ Call.changes.new_interval = card.interval
        /\ Call.changes.new_ease = card.ease_factor
        /\ Call.changes.next_review = card.next_review

\* C12 witness: an "advance" whose log shows a change of both values: from
\* interval 10 and ease factor 2.0 to another interval and ease factor.
C12_WitnessAdvanceLogged ==
    /\ HasCall
    /\ Call.changes.action = "advance"
    /\ Call.changes.previous_interval = 10
    /\ Call.changes.previous_ease = FInt(2)
    /\ Call.changes.new_interval > 10
    /\ Call.changes.new_ease # FInt(2)
    /\ Call.changes.new_interval = card.interval

\* C13: after a review made at the time `at`, last_reviewed is `at` and
\* next_review is `at` plus the card's new interval, within 1..365, in days;
\* so on every card reviewed at least once next_review is last_reviewed plus
\* interval days and is strictly later than last_reviewed.
C13_ScheduledFromNow ==
    /\ HasCall =>
           /\ card.last_reviewed = Call.at
           /\ card.interval \in GRADUATING_INTERVAL..MAX_INTERVAL
           /\ card.next_review = Call.at + card.interval * TicksPerDay
    /\ card.total_reviews >= 1 =>
           /\ card.next_review = card.last_reviewed + card.interval * TicksPerDay
           /\ card.next_review > card.last_reviewed

\* C13 witness: a second pass made after the clock had moved gave the
\* interval of 6 days, and the clock has moved on since.
C13_WitnessLaterReview ==
    /\ HasCall
    /\ Call.at > 0
    /\ now > Call.at
    /\ Call.before.interval = 1
    /\ card.interval = 6
    /\ card.next_review = Call.at + 6 * TicksPerDay

\* The last query and what it returned; the positions of the list in a pool
Asked(op) == asked # <<>> /\ asked[1].op = op

Answer == asked[1].result

DuePositions == {i \in 1..Len(deck) : deck[i].next_review # None
                                      /\ deck[i].next_review <= now}

NewPositions == {i \in 1..Len(deck) : deck[i].repetitions = 0
                                      /\ deck[i].next_review = None}

Ids(s) == {s[k].id : k \in 1..Len(s)}

\* C14: get_due_cards returns in "review" only cards that have a next_review
\* not later than now and in "new" only cards with repetitions 0 and no
\* next_review, each card as it is in the list and at most once, at most
\* `limit` of the first and `include_new` of the second (all of a pool that
\* fits); total_due and total_new are the sizes of the whole pools.
C14_PoolsAndTotals ==
    Asked("get_due_cards") =>
        /\ Answer.total_due = Cardinality(DuePositions)
        /\ Answer.total_new = Cardinality(NewPositions)
        /\ Ids(Answer.review) \subseteq DuePositions
        /\ Ids(Answer.new) \subseteq NewPositions
        /\ \A k \in 1..Len(Answer.review) : Answer.review[k] = deck[Answer.review[k].id]
        /\ \A k \in 1..Len(Answer.new) : Answer.new[k] = deck[Answer.new[k].id]
        /\ Cardinality(Ids(Answer.review)) = Len(Answer.review)
        /\ Cardinality(Ids(Answer.new)) = Len(Answer.new)
        /\ Len(Answer.review) = IMin(asked[1].limit, Answer.total_due)
        /\ Len(Answer.new) = IMin(asked[1].include_new, Answer.total_new)
        /\ Len(Answer.review) <= asked[1].limit
        /\ Len(Answer.new) <= asked[1].include_new
        /\ Answer.total_due >= Len(Answer.review)
        /\ Answer.total_new >= Len(Answer.new)

\* C14 witness: both slices are shorter than their pools, and a card with
\* repetitions and no next_review is in neither pool.
C14_WitnessSlicesShorter ==
    /\ Asked("get_due_cards")
    /\ Len(deck) = MaxCards
    /\ asked[1].limit = 1
    /\ asked[1].include_new = 0
    /\ Answer.total_due = 2
    /\ Len(Answer.review) = 1
    /\ Answer.total_new = 1
    /\ Len(Answer.new) = 0

\* The rank of the sort: more whole days overdue, then the lower ease factor
RanksNotBelow(c1, c2) ==
    \/ DaysOverdue(c1, now) > DaysOverdue(c2, now)
    \/ /\ DaysOverdue(c1, now) = DaysOverdue(c2, now)
       /\ FLe(c1.ease_factor, c2.ease_factor)

\* C15: the review list is ordered by whole days overdue, larger first, and
\* among cards of the same days by ease factor, lower first; the due cards
\* left out by the limit rank no higher than any returned card.
C15_OrderedByUrgency ==
    Asked("get_due_cards") =>
        /\ \A k, l \in 1..Len(Answer.review) :
               k < l => RanksNotBelow(Answer.review[k], Answer.review[l])
        /\ \A i \in DuePositions \ Ids(Answer.review) :
               \A k \in 1..Len(Answer.review) :
                   RanksNotBelow(Answer.review[k], deck[i])

\* C15 witness: three due cards came in the reverse of their rank; the two
\* returned are the one more days overdue, then the one of lower ease factor
\* among the two of equal days; the third is left out.
C15_WitnessReordered ==
    /\ Asked("get_due_cards")
    /\ asked[1].limit = 2
    /\ Answer.total_due = 3
    /\ Len(Answer.review) = 2
    /\ Answer.review[1].id = 3
    /\ Answer.review[2].id = 2
    /\ DaysOverdue(deck[3], now) > DaysOverdue(deck[2], now)
    /\ DaysOverdue(deck[2], now) = DaysOverdue(deck[1], now)
    /\ FLt(deck[2].ease_factor, deck[1].ease_factor)

\* The lists of C16: every card is overdue or not due (never reviewed, or due
\* later), and no two overdue cards are overdue by the same time
OverduePositions == {i \in 1..Len(deck) : deck[i].next_review # None
                                          /\ deck[i].next_review < now}

OverdueOrNotDue ==
    /\ \A i \in 1..Len(deck) : deck[i].next_review # now
    /\ \A i, j \in OverduePositions :
           i # j => deck[i].next_review # deck[j].next_review
    /\ OverduePositions # {}
    /\ OverduePositions # 1..Len(deck)

\* C16 as stated: on such a list and with a limit that allows them all, the
\* review list holds exactly the overdue cards, total_due is their number,
\* and a returned card overdue by more time than another comes before it.
C16_MoreTimeOverdueFirst ==
    /\ Asked("get_due_cards")
    /\ OverdueOrNotDue
    /\ asked[1].limit >= Cardinality(OverduePositions)
    => /\ Ids(Answer.review) = OverduePositions
       /\ Answer.total_due = Cardinality(OverduePositions)
       /\ \A k, l \in 1..Len(Answer.review) :
              Answer.review[k].next_review < Answer.review[l].next_review
                  => k < l

\* C16, amended: on such a list and with a limit that allows them all, the
\* review list holds exactly the overdue cards, each once, total_due is their
\* number, a returned card overdue by more whole days than another comes
\* before it, and of two returned cards overdue by the same number of whole
\* days the one with the lower ease_factor comes first, whichever of them
\* is overdue by more hours.
C16_MoreDaysOverdueFirst ==
    /\ Asked("get_due_cards")
    /\ OverdueOrNotDue
    /\ asked[1].limit >= Cardinality(OverduePositions)
    => /\ Ids(Answer.review) = OverduePositions
       /\ Len(Answer.review) = Cardinality(OverduePositions)
       /\ Answer.total_due = Cardinality(OverduePositions)
       /\ \A k, l \in 1..Len(Answer.review) :
              DaysOverdue(Answer.review[k], now) > DaysOverdue(Answer.review[l], now)
                  => k < l
       /\ \A k, l \in 1..Len(Answer.review) :
              /\ DaysOverdue(Answer.review[k], now) = DaysOverdue(Answer.review[l], now)
              /\ FLt(Answer.review[k].ease_factor, Answer.review[l].ease_factor)
              => k < l

\* C16 witness: scenario D on three cards: the card due later stands first
\* in the list, the card a whole day more overdue second, the third is not
\* due; the two overdue ones are returned, the more overdue one first.
C16_WitnessMostOverdueFirst ==
    /\ Asked("get_due_cards")
    /\ OverdueOrNotDue
    /\ asked[1].limit = 20
    /\ Len(deck) = 3
    /\ OverduePositions = {1, 2}
    /\ deck[3].next_review # None
    /\ DaysOverdue(deck[2], now) > DaysOverdue(deck[1], now)
    /\ Len(Answer.review) = 2
    /\ Answer.review[1].id = 2
    /\ Answer.review[2].id = 1
    /\ Answer.total_due = 2

\* C17: estimate_workload returns days_ahead entries, for the calendar days
\* today, tomorrow and so on; the due_count of each is the number of cards
\* having a next_review on or before that day, so the counts never decrease
\* from one entry to the next and never exceed the number of cards.
C17_CumulativeWorkload ==
    Asked("estimate_workload") =>
        /\ Len(Answer) = asked[1].days_ahead
        /\ \A d \in 1..Len(Answer) :
               /\ Answer[d].date = DateOf(now) + (d - 1)
               /\ Answer[d].due_count =
                      Cardinality({i \in 1..Len(deck) :
                                      /\ deck[i].next_review # None
                                      /\ DateOf(deck[i].next_review) <= Answer[d].date})
               /\ Answer[d].due_count <= Len(deck)
        /\ \A d \in 1..(Len(Answer) - 1) :
               Answer[d].due_count <= Answer[d + 1].due_count

\* C17 witness: scenario E: three days, the counts rising from 1 to 2 on a
\* list that also holds a card with no next_review, which is never counted.
C17_WitnessRisingCounts ==
    /\ Asked("estimate_workload")
    /\ asked[1].days_ahead = 3
    /\ Len(deck) = 3
    /\ \E i \in 1..3 : deck[i].next_review = None
    /\ Answer[1].due_count = 1
    /\ Answer[2].due_count = 2
    /\ Answer[3].due_count = 2

C19_LevelIsBucketOfPercent ==
    Asked("get_mastery_level") =>
        /\ FLe(FZero, Answer.mastery_percent)
        /\ FLe(Answer.mastery_percent, FInt(100))
        /\ Answer.level = "New" <=> FLt(Answer.mastery_percent, FInt(40))
        /\ Answer.level = "Learning" <=>
               /\ FLe(FInt(40), Answer.mastery_percent)
               /\ FLt(Answer.mastery_percent, FInt(70))
        /\ Answer.level = "Familiar" <=>
               /\ FLe(FInt(70), Answer.mastery_percent)
               /\ FLt(Answer.mastery_percent, FInt(90))
        /\ Answer.level = "Mastered" <=> FLe(FInt(90), Answer.mastery_percent)
        /\ Answer.is_mastered <=> Answer.level = "Mastered"
        /\ card.total_reviews = 0 => Answer.accuracy = FZero

\* last + (target_accuracy - recent_accuracy) * 0.5 of the last call, last
\* the newest entry of the history before the call or 0.5
C20_Moved ==
    FAdd(IF asked[1].self.difficulty_history = <<>> THEN FIntDiv(1, 2)
         ELSE asked[1].self.difficulty_history[Len(asked[1].self.difficulty_history)],
         FMul(FSub(asked[1].target_accuracy, asked[1].recent_accuracy),
              FIntDiv(1, 2)))

\* C20: every value returned by calculate_optimal_difficulty and every
\* entry of difficulty_history lies in [0.1, 0.9]; a call returns
\* last + (target_accuracy - recent_accuracy) * 0.5 limited to that range;
\* it appends that value to difficulty_history and recent_accuracy to
\* accuracy_history, so both lengths are the number of calls made.
C20_DifficultyClamped ==
    /\ \A k \in 1..Len(learner.difficulty_history) :
           /\ FLe(FIntDiv(1, 10), learner.difficulty_history[k])
           /\ FLe(learner.difficulty_history[k], FIntDiv(9, 10))
    /\ Len(learner.difficulty_history) = calls
    /\ Len(learner.accuracy_history) = calls
    /\ Asked("calculate_optimal_difficulty") =>
           /\ Answer = IF FLt(C20_Moved, FIntDiv(1, 10)) THEN FIntDiv(1, 10)
                       ELSE IF FLt(FIntDiv(9, 10), C20_Moved) THEN FIntDiv(9, 10)
                       ELSE C20_Moved
           /\ learner.difficulty_history =
                  Append(asked[1].self.difficulty_history, Answer)
           /\ learner.accuracy_history =
                  Append(asked[1].self.accuracy_history, asked[1].recent_accuracy)

\* C20 witness: the second call moved the difficulty below 0.1 and returned
\* 0.1; the first had returned a value inside the range.
C20_WitnessLowerLimit ==
    /\ Asked("calculate_optimal_difficulty")
    /\ calls = 2
    /\ FLt(C20_Moved, FIntDiv(1, 10))
    /\ Answer = FIntDiv(1, 10)
    /\ FLt(FIntDiv(1, 10), learner.difficulty_history[1])
    /\ Len(learner.accuracy_history) = 2

\* The score as the specification states it:
\* 50 * (1 - |difficulty - target|) + 30 * shared tags + 20 if not completed
C21_Score(content, target, weaknesses) ==
    FAdd(FAdd(FMul(FInt(50),
                   FSub(FInt(1),
                        FAbs(FSub(IF "difficulty" \in DOMAIN content
                                  THEN content.difficulty ELSE Lit0_5,
                                  target)))),
              FInt(30 * Cardinality(
                  {t \in {weaknesses[i] : i \in DOMAIN weaknesses} :
                      /\ "tags" \in DOMAIN content
                      /\ \E i \in DOMAIN content.tags : content.tags[i] = t}))),
         IF "completed" \in DOMAIN content /\ content.completed
         THEN FZero ELSE FInt(20))

C21_ScoreAt(i) ==
    C21_Score(Answer[i], asked[1].user_difficulty, asked[1].user_weaknesses)

\* C21: select_content returns a permutation of the candidate pool (every
\* candidate once, none added), ordered by non-increasing score, where the
\* score is 50 * (1 - |difficulty - target|) + 30 * (distinct tags shared with
\* the weaknesses) + 20 if not completed; candidates of equal score keep the
\* order of the pool; the pool passed in is as it was.
C21_PermutationByScore ==
    Asked("select_content") =>
        /\ Len(Answer) = Len(asked[1].pool)
        /\ {Answer[i].id : i \in DOMAIN Answer} = DOMAIN asked[1].pool
        /\ \A i \in DOMAIN Answer : Answer[i] = asked[1].pool[Answer[i].id]
        /\ \A i, j \in DOMAIN Answer :
               i < j =>
                   /\ ~FLt(C21_ScoreAt(i), C21_ScoreAt(j))
                   /\ C21_ScoreAt(i) = C21_ScoreAt(j) => Answer[i].id < Answer[j].id
        /\ asked[1].available_content = asked[1].pool

\* A pool of three came back in another order, two of equal score among them
C21_WitnessReorderedWithTie ==
    /\ Asked("select_content")
    /\ Len(Answer) = 3
    /\ Answer[1].id = 3
    /\ \E i, j \in DOMAIN Answer :
           i < j /\ C21_ScoreAt(i) = C21_ScoreAt(j)

\* C22: empty collections are not errors.  get_due_cards on an empty card
\* list returns empty review and new lists with total_due = 0 and
\* total_new = 0; estimate_workload on an empty card list returns days_ahead
\* entries, each with due_count 0; select_content on an empty pool returns an
\* empty list.  Each call returns: none raises.
C22_EmptyCollections ==
    /\ Asked("get_due_cards") /\ deck = <<>> =>
           /\ Answer.review = <<>>
           /\ Answer.new = <<>>
           /\ Answer.total_due = 0
           /\ Answer.total_new = 0
    /\ Asked("estimate_workload") /\ deck = <<>> =>
           /\ Len(Answer) = asked[1].days_ahead
           /\ \A d \in DOMAIN Answer : Answer[d].due_count = 0
    /\ Asked("select_content") /\ asked[1].pool = <<>> => Answer = <<>>

\* Three days of workload were asked of an empty card list
C22_WitnessEmptyWorkload ==
    /\ Asked("estimate_workload")
    /\ deck = <<>>
    /\ asked[1].days_ahead = 3
    /\ Len(Answer) = 3

\* Both copies of the card have received both outcomes
C23_BothOrdersDone ==
    /\ Asked("both_orders")
    /\ deck[1].total_reviews = card.total_reviews + 2
    /\ deck[2].total_reviews = card.total_reviews + 2

\* C23: scheduling is not commutative.  For a card at the largest ease factor, a
\* perfect review (quality 5) and a failing review (quality below 3) applied
\* in the two orders leave different ease factors: the rise of the perfect
\* review is lost to the upper limit when it comes first.  For such a card of
\* interval 10 past its second repetition, two passing reviews of quality 3
\* and quality 5 applied in the two orders leave different intervals.  The
\* counters of the card are the same in both orders.
C23_OrderMatters ==
    C23_BothOrdersDone =>
        /\ deck[1].total_reviews = deck[2].total_reviews
        /\ deck[1].correct_count = deck[2].correct_count
        /\ deck[1].incorrect_count = deck[2].incorrect_count
        /\ (/\ card.ease_factor = MAX_EASE_FACTOR
            /\ asked[1].first[1] = CORRECT_PERFECT
            /\ asked[1].second[1] < CORRECT_DIFFICULT)
           => FLt(deck[1].ease_factor, deck[2].ease_factor)
        /\ (/\ card.ease_factor = MAX_EASE_FACTOR
            /\ card.repetitions >= 2
            /\ card.interval = 10
            /\ asked[1].first[1] = CORRECT_DIFFICULT
            /\ asked[1].second[1] = CORRECT_PERFECT)
           => deck[1].interval # deck[2].interval

\* A valid card and two outcomes whose two orders end in different ease
\* factors and different intervals
C23_WitnessOrdersDiffer ==
    /\ C23_BothOrdersDone
    /\ deck[1].ease_factor # deck[2].ease_factor
    /\ deck[1].interval # deck[2].interval

\* The adjustment of the last call of calculate_optimal_difficulty
C24_Adjustment == Adjustment(asked[1].recent_accuracy, asked[1].target_accuracy)

\* A call with the default target_accuracy 0.8 and recent_accuracy in [0, 1]
C24_DefaultTarget ==
    /\ Asked("calculate_optimal_difficulty")
    /\ asked[1].target_accuracy = FIntDiv(8, 10)
    /\ FLe(FZero, asked[1].recent_accuracy)
    /\ FLe(asked[1].recent_accuracy, FInt(1))

\* C24: with the default target_accuracy 0.8 and a recent_accuracy in [0, 1]
\* the adjustment of a call (error * 0.5, before the clamp) lies within
\* [-0.2, +0.2].
C24_AdjustmentWithinFifth ==
    C24_DefaultTarget =>
        /\ FLe(FNeg(Lit0_2), C24_Adjustment)
        /\ FLe(C24_Adjustment, Lit0_2)

\* What the code computes: the error is between -0.2 and 0.8, the adjustment
\* between -0.1 and +0.4
C24_CodeAdjustmentRange ==
    C24_DefaultTarget =>
        /\ FLe(FNeg(Lit0_1), C24_Adjustment)
        /\ FLe(C24_Adjustment, FIntDiv(4, 10))

\* No answer was right: the adjustment is 0.4
C24_LargestAdjustment ==
    /\ C24_DefaultTarget
    /\ asked[1].recent_accuracy = FZero
    /\ C24_Adjustment = FIntDiv(4, 10)

\* C25: submit_review completes without raising for every list of answers,
\* the empty list included: reviewed_count is the number of answers, accuracy
\* is correct_count / reviewed_count and 0 when there are no answers, and an
\* answer is is_correct exactly when its quality is at least 3, the pass
\* threshold of the scheduling engine.
C25_SubmitReviewCompletes ==
    Asked("submit_review") =>
        /\ asked[1].raised = "none"
        /\ Answer.reviewed_count = Len(asked[1].answers)
        /\ Answer.accuracy =
               IF asked[1].answers = <<>> THEN FZero
               ELSE FIntDiv(Answer.correct_count, Answer.reviewed_count)
        /\ Answer.correct_count =
               Cardinality({i \in DOMAIN Answer.results : Answer.results[i].is_correct})
        /\ \A i \in DOMAIN asked[1].answers :
               Answer.results[i].is_correct
                   <=> asked[1].answers[i].quality >= CORRECT_DIFFICULT

\* C26: on every card reached from a new card by valid reviews, repetitions
\* <= 1 implies interval = 1 and repetitions >= 2 implies interval >= 6; so
\* the branch that multiplies the interval by the ease factor (a passing
\* review of a card with repetitions >= 2) is never given an interval below 6.
C26_IntervalByRepetitions ==
    /\ card.repetitions <= 1 => card.interval = 1
    /\ card.repetitions >= 2 => card.interval >= 6
    /\ (/\ HasCall
        /\ Call.quality >= CORRECT_DIFFICULT
        /\ Call.before.repetitions >= 2)
       => Call.before.interval >= 6

\* The interval 6 of the second pass was multiplied by the ease factor
C26_WitnessMultipliedFromSix ==
    /\ HasCall
    /\ Call.quality >= CORRECT_DIFFICULT
    /\ Call.before.repetitions = 2
    /\ Call.before.interval = 6
    /\ card.repetitions = 3
    /\ card.interval > 6

\* C27: on every card reached from a new card, a passing review (quality >= 3)
\* never produces an interval smaller than the interval before the review, and
\* produces a strictly larger one whenever the repetitions before were >= 1
\* and the interval before was < 365, whatever the ease factor.
C27_PassNeverShortens ==
    HasCall /\ Call.quality >= CORRECT_DIFFICULT =>
        /\ card.interval >= Call.before.interval
        /\ (Call.before.repetitions >= 1 /\ Call.before.interval < MAX_INTERVAL)
           => card.interval > Call.before.interval

\* A hard pass at the smallest ease factor still lengthened the interval
C27_WitnessGrowthAtMinEase ==
    /\ HasCall
    /\ Call.quality = CORRECT_DIFFICULT
    /\ Call.before.ease_factor = MIN_EASE_FACTOR
    /\ Call.before.interval < MAX_INTERVAL
    /\ card.interval > Call.before.interval

\* C28: a card that receives only passing reviews from some point on reaches
\* the interval 365 and keeps it: the interval is 365 from the 19th passing
\* review in a row at the latest, a passing review of a card at 365 leaves it
\* at 365, and when the reviews keep coming the interval is 365 for good.  A
\* failing review at any point leaves the interval 1.
C28_PassingReaches365 ==
    /\ [](card.repetitions >= 19 => card.interval = MAX_INTERVAL)
    /\ [][(/\ card.interval = MAX_INTERVAL
           /\ last' # <<>>
           /\ last'[1].quality >= CORRECT_DIFFICULT)
          => card'.interval = MAX_INTERVAL]_vars
    /\ [](HasCall /\ Call.quality < CORRECT_DIFFICULT => card.interval = 1)
    /\ <>[](card.interval = MAX_INTERVAL)

\* Eighteen passes in a row and the interval still short of 365
C28_WitnessSlowestGrowth ==
    /\ card.repetitions = 18
    /\ card.interval < MAX_INTERVAL

\* The time the card is scheduled for by its last review: t + i days
C29_DueTime == Call.at + card.interval * TicksPerDay

\* C29: the pools in the life of a card.  A never-reviewed card is in the new
\* pool and not in the due pool.  Once reviewed at time t with the resulting
\* interval i the card is not in the new pool, also after a failing review
\* has set its repetitions to 0, and a card out of the new pool stays out;
\* before t + i days it is in neither pool, from t + i days until the next
\* review it is in the due pool.  No card is in both pools.
C29_PoolLifecycle ==
    /\ [](/\ ~HasCall => IsNew(card) /\ ~IsDue(card, now)
          /\ HasCall => ~IsNew(card)
          /\ HasCall /\ now < C29_DueTime => ~IsDue(card, now)
          /\ HasCall /\ now >= C29_DueTime => IsDue(card, now)
          /\ ~(IsNew(card) /\ IsDue(card, now)))
    /\ [][~IsNew(card) => ~IsNew(card')]_vars

\* A card that failed its review waited out its day and is due, not new
C29_WitnessFailedCardDue ==
    /\ HasCall
    /\ Call.quality < CORRECT_DIFFICULT
    /\ card.repetitions = 0
    /\ now = C29_DueTime
    /\ IsDue(card, now)
    /\ ~IsNew(card)

\* The difficulty before the last call of calculate_optimal_difficulty
C30_Previous ==
    IF asked[1].self.difficulty_history = <<>> THEN FIntDiv(1, 2)
    ELSE asked[1].self.difficulty_history[Len(asked[1].self.difficulty_history)]

\* C30: calculate_optimal_difficulty is a negative feedback that keeps the
\* accuracy at the target: with recent_accuracy above target_accuracy the
\* difficulty returned is not below the previous one, with recent_accuracy
\* below target_accuracy it is not above the previous one, and with the two
\* equal it is the previous one.
C30_NegativeFeedback ==
    Asked("calculate_optimal_difficulty") =>
        /\ FLt(asked[1].target_accuracy, asked[1].recent_accuracy)
               => FLe(C30_Previous, Answer)
        /\ FLt(asked[1].recent_accuracy, asked[1].target_accuracy)
               => FLe(Answer, C30_Previous)
        /\ asked[1].recent_accuracy = asked[1].target_accuracy
               => Answer = C30_Previous

====
